---- MODULE Spec2Model ----
(***************************************************************************)
(* State-machine model of ts2md.py: directory scan, classification by      *)
(* extension, optional debug preview, metadata extraction for images and   *)
(* videos, GPS conversion, and the incremental writing of the Markdown     *)
(* report.                                                                 *)
(*                                                                         *)
(* Text is modelled structurally.  A file name is the sequence of its      *)
(* character codes (so suffix(), lower() and the ordering of paths are     *)
(* computed, not assumed).  A metadata key or value, and a line printed by *)
(* the probe, is a sequence of tokens: words, the blank " " and the colon  *)
(* ":"; the empty string is << >>.                                         *)
(***************************************************************************)
EXTENDS Integers, Sequences, FiniteSets, TLC

VARIABLES
    dirOk,      \* input_dir.exists() and input_dir.is_dir()
    listing,    \* input_dir.iterdir(): directory entries in listing order
    debug,      \* args.debug
    pc,         \* position of main()
    files,      \* the local `files` of main()
    idx,        \* position of the report loop in sorted(files)
    outExists,  \* the output file exists on disk
    outFile,    \* the chunks the output file holds
    diag,       \* names printed as "[DEBUG] File: ..."
    tagCalls,   \* per file name: calls of extract_*_metadata in this run
    transCalls, \* per file name: calls of transcribe_audio in this run
    cur,        \* single-file pipeline: the file name
    raw,        \* single-file pipeline: what the tag reader will see
    meta,       \* single-file pipeline: the dict returned by extract_*
    lines,      \* single-file pipeline: the metadata lines written
    phase       \* single-file pipeline: "input", "extracted", "rendered"

vars == <<dirOk, listing, debug, pc, files, idx, outExists, outFile, diag, tagCalls,
          transCalls, cur, raw, meta, lines, phase>>

runVars == <<dirOk, listing, debug, pc, files, idx, outExists, outFile, diag, tagCalls,
             transCalls>>

fileVars == <<cur, raw, meta, lines, phase>>

-----------------------------------------------------------------------------
(* Bounds of the model *)

MaxFiles == 3

MaxLines == 2

-----------------------------------------------------------------------------
(* Generic helpers *)

\* None / a missing dict entry, as a value no text equals
Absent == <<"<absent>">>

Range(s) == {s[i] : i \in 1..Len(s)}

Put(m, k, v) == [x \in (DOMAIN m) \cup {k} |-> IF x = k THEN v ELSE m[x]]

EmptyMeta == [x \in {} |-> << >>]

Get(m, k) == IF k \in DOMAIN m THEN m[k] ELSE Absent

Truthy(v) == v # Absent /\ v # << >>

-----------------------------------------------------------------------------
(* File names, suffixes and classification *)

VIDEO_EXTENSIONS ==
    { <<46, 109, 112, 52>>, <<46, 109, 111, 118>>, <<46, 97, 118, 105>>,
      <<46, 109, 107, 118>>, <<46, 102, 108, 118>>, <<46, 119, 109, 118>> }

IMAGE_EXTENSIONS ==
    { <<46, 106, 112, 103>>, <<46, 106, 112, 101, 103>>, <<46, 112, 110, 103>>,
      <<46, 104, 101, 105, 99>>, <<46, 116, 105, 102, 102>>,
      <<46, 98, 109, 112>>, <<46, 103, 105, 102>> }

HeicSuffix == <<46, 104, 101, 105, 99>>

\* str.lower() on one ASCII character code
LowerChar(c) == IF c >= 65 /\ c <= 90 THEN c + 32 ELSE c

Lower(s) == [i \in 1..Len(s) |-> LowerChar(s[i])]

\* str.rfind('.') : 0 when there is no dot
LastDot(name) ==
    LET dots == {i \in 1..Len(name) : name[i] = 46}
    IN  IF dots = {} THEN 0
        ELSE CHOOSE i \in dots : \A j \in dots : j <= i

\* PurePath.suffix: the text from the last dot of the name, or "" when the
\* name has no dot, starts with its only dot, or ends with a dot.
Suffix(name) ==
    LET i == LastDot(name)
    IN  IF i > 1 /\ i < Len(name) THEN SubSeq(name, i, Len(name)) ELSE << >>

is_video_file(name) == Lower(Suffix(name)) \in VIDEO_EXTENSIONS

is_image_file(name) == Lower(Suffix(name)) \in IMAGE_EXTENSIONS

\* Path.__lt__ for two entries of the same directory on a POSIX system:
\* the names are compared as strings, code point by code point.
RECURSIVE PathLess(_, _)
PathLess(a, b) ==
    IF b = << >> THEN FALSE
    ELSE IF a = << >> THEN TRUE
    ELSE IF Head(a) # Head(b) THEN Head(a) < Head(b)
    ELSE PathLess(Tail(a), Tail(b))

RECURSIVE Insert(_, _)
Insert(x, s) ==
    IF s = << >> THEN <<x>>
    ELSE IF PathLess(x, Head(s)) THEN <<x>> \o s
    ELSE <<Head(s)>> \o Insert(x, Tail(s))

RECURSIVE Sorted(_)
Sorted_Unsorted(s) == s

Sorted(s) == IF s = << >> THEN << >> ELSE Insert(Head(s), Sorted(Tail(s)))

-----------------------------------------------------------------------------
(* Text tokens, metadata keys and report chunks *)

SP == " "

COLON == ":"

ErrorKey == <<"error">>

ErrText == <<"exception text">>

NotFound == <<"Not found">>

\* str.strip(): drop the blanks at both ends
RECURSIVE LStrip(_)
LStrip(s) == IF s # << >> /\ Head(s) = SP THEN LStrip(Tail(s)) ELSE s

RECURSIVE RStrip(_)
RStrip(s) ==
    IF s # << >> /\ s[Len(s)] = SP THEN RStrip(SubSeq(s, 1, Len(s) - 1)) ELSE s

Strip(s) == RStrip(LStrip(s))

\* one write() of main() into the report
Chunk(t, name, label, value) ==
    [t |-> t, name |-> name, label |-> label, value |-> value]

Heading(name) == Chunk("heading", name, "", << >>)

MetadataHeader == Chunk("metadata_header", << >>, "", << >>)

Bullet(label, value) == Chunk("bullet", << >>, label, value)

NoMetadataFound == Chunk("no_metadata_found", << >>, "", << >>)

TranscriptionHeader == Chunk("transcription_header", << >>, "", << >>)

TranscriptionText(text) == Chunk("transcription_text", << >>, "", text)

NotesLine == Chunk("notes", << >>, "", << >>)

-----------------------------------------------------------------------------
(* extract_video_metadata *)

\* index of the first ":" of a probe line, 0 when the line has none
FirstColon(line) ==
    LET cs == {i \in 1..Len(line) : line[i] = COLON}
    IN  IF cs = {} THEN 0 ELSE CHOOSE i \in cs : \A j \in cs : i <= j

\* the body of the loop over result.stdout.splitlines()
ParseLine(m, line) ==
    LET i == FirstColon(line)
    IN  IF i = 0 THEN m
        ELSE Put(m, Strip(SubSeq(line, 1, i - 1)),
                 Strip(SubSeq(line, i + 1, Len(line))))

RECURSIVE ParseLines(_, _)
ParseLines(m, stdout) ==
    IF stdout = << >> THEN m
    ELSE ParseLines(ParseLine(m, Head(stdout)), Tail(stdout))

DescriptionSources ==
    << <<"Description">>, <<"UserComment">>, <<"XPComment">>, <<"Comment">> >>

\* meta.get(a) or meta.get(b) or ...: the first truthy value, else Absent
RECURSIVE FirstTruthy(_, _)
FirstTruthy(m, keys) ==
    IF keys = << >> THEN Absent
    ELSE IF Truthy(Get(m, Head(keys))) THEN m[Head(keys)]
    ELSE FirstTruthy(m, Tail(keys))

\* the two statements after the parsing loop
SetDescription(m) ==
    LET desc == FirstTruthy(m, DescriptionSources)
    IN  Put(m, <<"Description">>, IF Truthy(desc) THEN desc ELSE << >>)

\* probe: [raises, returncode, stdout].  subprocess.run is called without
\* check=True, so the return code is not looked at.
extract_video_metadata(probe) ==
    IF probe.raises THEN Put(EmptyMeta, ErrorKey, ErrText)
    ELSE SetDescription(ParseLines(EmptyMeta, probe.stdout))

-----------------------------------------------------------------------------
(* exif_gps_to_decimal and extract_image_metadata *)

\* A rational is <<num, den>>; a coordinate is a triple of rationals.
ZeroDen(t) == \E i \in 1..3 : t[i][2] = 0

\* to_deg in millionths of a degree, rounded to nearest as "{:.6f}" prints
\* it: (d + m/60 + s/3600) * 10^6 = N * 2500 / (9 * q)
ToDegMicro(t) ==
    LET q == t[1][2] * t[2][2] * t[3][2]
        n == t[1][1] * t[2][2] * t[3][2] * 3600
             + t[2][1] * t[1][2] * t[3][2] * 60
             + t[3][1] * t[1][2] * t[2][2]
    IN  (2 * n * 2500 + 9 * q) \div (2 * 9 * q)

\* Result [raised, lat, lon]: float division by zero raises ZeroDivisionError
exif_gps_to_decimal(gps) ==
    IF gps # << >> /\ Len(gps) = 2
    THEN IF ZeroDen(gps[1]) \/ ZeroDen(gps[2])
         THEN [raised |-> TRUE, lat |-> 0, lon |-> 0]
         ELSE [raised |-> FALSE, lat |-> ToDegMicro(gps[1]),
               lon |-> ToDegMicro(gps[2])]
    ELSE [raised |-> FALSE, lat |-> 0, lon |-> 0]

BadByte == "\\xff"

\* bytes.decode(): raises UnicodeDecodeError on an undecodable byte
DecodeRaises(b) == BadByte \in Range(b)

\* bytes.decode(errors='ignore'): drops the undecodable bytes
DecodeIgnore(b) == SelectSeq(b, LAMBDA x : x # BadByte)

\* An extraction in progress: the dict so far, and whether an exception has
\* left the try block.
Running(m) == [m |-> m, raised |-> FALSE]

Raised(m) == [m |-> Put(m, ErrorKey, ErrText), raised |-> TRUE]

ImageSizeText(img) == <<img.width, "x", img.height>>

\* lines 62-65
StepCreationDate(r, img) ==
    IF r.raised \/ ~Truthy(img.dt) THEN r
    ELSE IF DecodeRaises(img.dt) THEN Raised(r.m)
    ELSE Running(Put(r.m, <<"Creation", SP, "Date">>, img.dt))

\* lines 66-78
StepGPS(r, img) ==
    IF r.raised THEN r
    ELSE IF img.gps.lat = Absent \/ img.gps.lon = Absent THEN r
    ELSE LET lat_ref == IF img.gps.latRef = Absent THEN <<"N">> ELSE img.gps.latRef
             lon_ref == IF img.gps.lonRef = Absent THEN <<"E">> ELSE img.gps.lonRef
             d == exif_gps_to_decimal(<<img.gps.lat, img.gps.lon>>)
             lat == IF lat_ref = <<"S">> THEN 0 - d.lat ELSE d.lat
             lon == IF lon_ref = <<"W">> THEN 0 - d.lon ELSE d.lon
         IN  IF d.raised THEN Raised(r.m)
             ELSE Running(Put(r.m, <<"GPS">>,
                              <<ToString(lat), ",", SP, ToString(lon)>>))

\* lines 79-89: one of Make, Model, Description
StepText(r, key, bytes) ==
    IF r.raised \/ ~Truthy(bytes) THEN r
    ELSE Running(Put(r.m, key, DecodeIgnore(bytes)))

\* lines 90-95
StepFileInfo(r, name, img) ==
    IF r.raised THEN r
    ELSE Running(
        Put(Put(Put(Put(Put(r.m,
            <<"File", SP, "Name">>, <<"name">>),
            <<"File", SP, "Size">>, <<img.kb, SP, "KB">>),
            <<"MIME", SP, "Type">>, <<img.mime>>),
            <<"Image", SP, "Width">>, <<img.width>>),
            <<"Image", SP, "Height">>, <<img.height>>))

\* lines 59-89
StepExif(r, img) ==
    IF r.raised \/ img.exif = "none" THEN r
    ELSE IF img.exif = "bad" THEN Raised(r.m)
    ELSE StepText(StepText(StepText(StepGPS(StepCreationDate(r, img), img),
             <<"Make">>, img.make), <<"Model">>, img.model),
             <<"Description">>, img.desc)

\* img: what the decoder and the EXIF parser report for the file
extract_image_metadata(name, img) ==
    IF Lower(Suffix(name)) = HeicSuffix
    THEN IF img.hasPyheif
         THEN IF img.decodeRaises THEN Raised(EmptyMeta).m
              ELSE Put(EmptyMeta, <<"Image", SP, "Size">>, ImageSizeText(img))
         ELSE Put(EmptyMeta, ErrorKey, <<"pyheif not installed">>)
    ELSE IF img.decodeRaises THEN Raised(EmptyMeta).m
    ELSE StepFileInfo(
             StepExif(Running(Put(EmptyMeta, <<"Image", SP, "Size">>,
                                  ImageSizeText(img))), img),
             name, img).m

-----------------------------------------------------------------------------
(* The metadata list of a section *)

Field(key, label) == [key |-> key, label |-> label]

VideoFields ==
    << Field(<<"Creation", SP, "Date">>, "Creation Date"),
       Field(<<"Description">>, "Description"),
       Field(<<"Duration">>, "Video Length"),
       Field(<<"Comment">>, "Video Description"),
       Field(<<"GPS">>, "GPS"),
       Field(<<"Make">>, "Make"),
       Field(<<"Model">>, "Model"),
       Field(<<"MIME", SP, "Type">>, "MIME Type"),
       Field(<<"File", SP, "Name">>, "File Name"),
       Field(<<"File", SP, "Size">>, "File Size"),
       Field(<<"Image", SP, "Width">>, "Image Width"),
       Field(<<"Image", SP, "Height">>, "Image Height") >>

ImageFields ==
    << Field(<<"Creation", SP, "Date">>, "Creation Date"),
       Field(<<"Description">>, "Description"),
       Field(<<"GPS">>, "GPS"),
       Field(<<"Make">>, "Make"),
       Field(<<"Model">>, "Model"),
       Field(<<"MIME", SP, "Type">>, "MIME Type"),
       Field(<<"File", SP, "Name">>, "File Name"),
       Field(<<"File", SP, "Size">>, "File Size"),
       Field(<<"Image", SP, "Width">>, "Image Width"),
       Field(<<"Image", SP, "Height">>, "Image Height") >>

FieldsOf(name) == IF is_video_file(name) THEN VideoFields ELSE ImageFields

\* the body of `for key, label in fields`
FieldLine_Uniform(m, f) ==
    IF f.key \in DOMAIN m THEN <<Bullet(f.label, m[f.key])>> ELSE << >>

FieldLine(m, f) ==
    IF f.key = <<"Description">>
    THEN IF f.key \in DOMAIN m /\ m[f.key] # << >>
         THEN <<Bullet(f.label, m[f.key])>>
         ELSE <<Bullet(f.label, NotFound)>>
    ELSE IF f.key \in DOMAIN m THEN <<Bullet(f.label, m[f.key])>> ELSE << >>

RECURSIVE FieldLines(_, _)
FieldLines(m, fields) ==
    IF fields = << >> THEN << >>
    ELSE FieldLine(m, Head(fields)) \o FieldLines(m, Tail(fields))

\* `if not any(key in meta for key, _ in fields)`
NoFieldLine_Never(m, fields) == << >>

NoFieldLine(m, fields) ==
    IF \E i \in 1..Len(fields) : fields[i].key \in DOMAIN m THEN << >>
    ELSE <<NoMetadataFound>>

MetadataLines(m, fields) == FieldLines(m, fields) \o NoFieldLine(m, fields)

-----------------------------------------------------------------------------
(* Inputs: directory entries, probe outputs, decoded images, transcripts *)

Entry(name, is_file) == [name |-> name, is_file |-> is_file]

A_MP4 == <<97, 46, 109, 112, 52>>

B_UPPER_MOV == <<66, 46, 77, 79, 86>>

B_JPG == <<98, 46, 106, 112, 103>>

C_PNG == <<99, 46, 112, 110, 103>>

N_TXT == <<110, 46, 116, 120, 116>>

D_AVI == <<100, 46, 97, 118, 105>>

E_UPPER_HEIC == <<101, 46, 72, 69, 73, 67>>

\* what the input directory may hold; d.avi is a sub-directory
Entries ==
    { Entry(A_MP4, TRUE), Entry(B_UPPER_MOV, TRUE), Entry(B_JPG, TRUE),
      Entry(C_PNG, TRUE), Entry(N_TXT, TRUE), Entry(D_AVI, FALSE) }

Names == {e.name : e \in Entries}

Listings ==
    { s \in UNION {[1..n -> Entries] : n \in 0..MaxFiles} :
        \A i, j \in 1..Len(s) : i # j => s[i] # s[j] }

OldReport == <<Chunk("previous_content", << >>, "", << >>)>>

Probe(raises, returncode, stdout) ==
    [raises |-> raises, returncode |-> returncode, stdout |-> stdout]

ProbeKeys ==
    { <<"Description">>, <<"UserComment">>, <<"XPComment">>, <<"Comment">>,
      <<"CreateDate">>, <<"CreationDate">>, <<"ModifyDate">>,
      <<"Creation", SP, "Date">>, <<"Make">> }

ProbeValues == { << >>, <<"v1">>, <<"2021", COLON, "01">> }

\* the probe prints "Key   : Value"
ProbeLine(k, v) == k \o <<SP, COLON, SP>> \o v

ProbeLinesSet ==
    {ProbeLine(k, v) : k \in ProbeKeys, v \in ProbeValues}
        \cup { <<"1", SP, "image", SP, "files", SP, "read">> }

Stdouts == UNION {[1..n -> ProbeLinesSet] : n \in 0..MaxLines}

VideoProbes ==
    {Probe(TRUE, 0, << >>)} \cup {Probe(FALSE, rc, out) : rc \in {0, 1}, out \in Stdouts}

T_1_30_0 == << <<1, 1>>, <<30, 1>>, <<0, 1>> >>

T_2_15_0 == << <<2, 1>>, <<15, 1>>, <<0, 1>> >>

T_ZeroDegDen == << <<1, 0>>, <<0, 1>>, <<0, 1>> >>

T_ZeroSecDen == << <<1, 1>>, <<0, 1>>, <<5, 0>> >>

Gps(lat, lon, latRef, lonRef) ==
    [lat |-> lat, lon |-> lon, latRef |-> latRef, lonRef |-> lonRef]

GpsInputs ==
    { Gps(lat, lon, latRef, lonRef) :
        lat \in {Absent, T_1_30_0, T_ZeroDegDen},
        lon \in {Absent, T_2_15_0, T_ZeroSecDen},
        latRef \in {Absent, <<"N">>, <<"S">>},
        lonRef \in {Absent, <<"E">>, <<"W">>} }

BaseImg ==
    [hasPyheif |-> TRUE, decodeRaises |-> FALSE, width |-> "640",
     height |-> "480", kb |-> "12", mime |-> "image/jpeg", exif |-> "none",
     dt |-> Absent, gps |-> Gps(Absent, Absent, Absent, Absent),
     make |-> Absent, model |-> Absent, desc |-> Absent]

ImageInputs ==
    { BaseImg, [BaseImg EXCEPT !.hasPyheif = FALSE],
      [BaseImg EXCEPT !.decodeRaises = TRUE], [BaseImg EXCEPT !.exif = "bad"] }
    \cup
    { [BaseImg EXCEPT !.exif = "ok", !.dt = dt, !.gps = gps, !.make = make,
                      !.model = model, !.desc = desc] :
        dt \in {Absent, <<"2020:01:01">>, <<BadByte>>},
        gps \in GpsInputs,
        make \in {Absent, << >>, <<"Canon", BadByte>>},
        model \in {Absent, <<"EOS">>},
        desc \in {Absent, << >>, <<"a", SP, "photo">>} }

\* the inputs drawn while a whole run is explored
RunVideoProbes ==
    { Probe(TRUE, 0, << >>), Probe(FALSE, 0, << >>),
      Probe(FALSE, 0, <<ProbeLine(<<"Make">>, <<"v1">>)>>) }

RunImageInputs == { BaseImg, [BaseImg EXCEPT !.decodeRaises = TRUE] }

Transcripts == { <<"hello">> }

PipelineNames == {A_MP4, B_JPG, E_UPPER_HEIC}

-----------------------------------------------------------------------------
(* main(): a whole run *)

\* line 155
RECURSIVE MediaFiles(_)
MediaFiles(l) ==
    IF l = << >> THEN << >>
    ELSE IF Head(l).is_file
            /\ (is_video_file(Head(l).name) \/ is_image_file(Head(l).name))
         THEN <<Head(l).name>> \o MediaFiles(Tail(l))
         ELSE MediaFiles(Tail(l))

\* next((f for f in files if test(f)), None), as a list of 0 or 1 names
FirstVideo(fs) ==
    LET v == SelectSeq(fs, is_video_file) IN IF v = << >> THEN << >> ELSE <<Head(v)>>

FirstImage(fs) ==
    LET v == SelectSeq(fs, is_image_file) IN IF v = << >> THEN << >> ELSE <<Head(v)>>

\* lines 163-165
DebugSelection_All(fs) == fs

DebugSelection(fs) == FirstVideo(fs) \o FirstImage(fs)

Bump(calls, names) ==
    [n \in DOMAIN calls |-> IF n \in names THEN calls[n] + 1 ELSE calls[n]]

CurrentFile == Sorted(files)[idx]

RunInit ==
    /\ dirOk \in BOOLEAN
    /\ listing \in IF dirOk THEN Listings ELSE {<< >>}
    /\ debug \in BOOLEAN
    /\ pc = "start"
    /\ files = << >>
    /\ idx = 0
    /\ outExists \in BOOLEAN
    /\ outFile = IF outExists THEN OldReport ELSE << >>
    /\ diag = << >>
    /\ tagCalls = [n \in Names |-> 0]
    /\ transCalls = [n \in Names |-> 0]
    /\ cur = << >>
    /\ raw = BaseImg
    /\ meta = EmptyMeta
    /\ lines = << >>
    /\ phase = "off"

\* lines 150-152
InvalidDirectory ==
    /\ pc = "start"
    /\ ~dirOk
    /\ pc' = "returned"
    /\ UNCHANGED <<dirOk, listing, debug, files, idx, outExists, outFile, diag,
                   tagCalls, transCalls, fileVars>>

\* lines 154-159, no recognised file
NoMediaFound ==
    /\ pc = "start"
    /\ dirOk
    /\ MediaFiles(listing) = << >>
    /\ pc' = "returned"
    /\ UNCHANGED <<dirOk, listing, debug, files, idx, outExists, outFile, diag,
                   tagCalls, transCalls, fileVars>>

\* lines 154-162
ScanFiles ==
    /\ pc = "start"
    /\ dirOk
    /\ MediaFiles(listing) # << >>
    /\ files' = MediaFiles(listing)
    /\ pc' = IF debug THEN "debug" ELSE "open"
    /\ UNCHANGED <<dirOk, listing, debug, idx, outExists, outFile, diag,
                   tagCalls, transCalls, fileVars>>

\* lines 162-186: the metadata of each selected file is read and printed
DebugPreview ==
    /\ pc = "debug"
    /\ files' = DebugSelection(files)
    /\ diag' = files'
    /\ tagCalls' = Bump(tagCalls, Range(files'))
    /\ pc' = "open"
    /\ UNCHANGED <<dirOk, listing, debug, idx, outExists, outFile, transCalls,
                   fileVars>>

\* line 188: open(..., 'w') creates or truncates the file
OpenOutput ==
    /\ pc = "open"
    /\ outExists' = TRUE
    /\ outFile' = << >>
    /\ idx' = 1
    /\ pc' = "loop"
    /\ UNCHANGED <<dirOk, listing, debug, files, diag, tagCalls, transCalls,
                   fileVars>>

\* lines 190-222, transcription returns
WriteVideoSection ==
    /\ pc = "loop"
    /\ idx <= Len(files)
    /\ is_video_file(CurrentFile)
    /\ \E probe \in RunVideoProbes, text \in Transcripts :
          outFile' = outFile \o <<Heading(CurrentFile), MetadataHeader>>
                       \o MetadataLines(extract_video_metadata(probe), VideoFields)
                       \o <<TranscriptionHeader, TranscriptionText(text)>>
    /\ tagCalls' = Bump(tagCalls, {CurrentFile})
    /\ transCalls' = Bump(transCalls, {CurrentFile})
    /\ idx' = idx + 1
    /\ UNCHANGED <<dirOk, listing, debug, pc, files, outExists, diag, fileVars>>

\* lines 190-220, model.transcribe raises: the exception leaves the with
\* block, which closes the file with what was written so far
TranscriptionRaises ==
    /\ pc = "loop"
    /\ idx <= Len(files)
    /\ is_video_file(CurrentFile)
    /\ \E probe \in RunVideoProbes :
          outFile' = outFile \o <<Heading(CurrentFile), MetadataHeader>>
                       \o MetadataLines(extract_video_metadata(probe), VideoFields)
    /\ tagCalls' = Bump(tagCalls, {CurrentFile})
    /\ transCalls' = Bump(transCalls, {CurrentFile})
    /\ pc' = "aborted"
    /\ UNCHANGED <<dirOk, listing, debug, files, idx, outExists, diag, fileVars>>

\* lines 190-191 and 223-249
WriteImageSection ==
    /\ pc = "loop"
    /\ idx <= Len(files)
    /\ ~is_video_file(CurrentFile)
    /\ is_image_file(CurrentFile)
    /\ \E img \in RunImageInputs :
          outFile' = outFile \o <<Heading(CurrentFile), MetadataHeader>>
                       \o MetadataLines(extract_image_metadata(CurrentFile, img),
                                        ImageFields)
                       \o <<NotesLine>>
    /\ tagCalls' = Bump(tagCalls, {CurrentFile})
    /\ idx' = idx + 1
    /\ UNCHANGED <<dirOk, listing, debug, pc, files, outExists, diag, transCalls,
                   fileVars>>

\* the loop ends, the with block closes the file, line 251
Finish ==
    /\ pc = "loop"
    /\ idx > Len(files)
    /\ pc' = "done"
    /\ UNCHANGED <<dirOk, listing, debug, files, idx, outExists, outFile, diag,
                   tagCalls, transCalls, fileVars>>

Next ==
    \/ InvalidDirectory
    \/ NoMediaFound
    \/ ScanFiles
    \/ DebugPreview
    \/ OpenOutput
    \/ WriteVideoSection
    \/ TranscriptionRaises
    \/ WriteImageSection
    \/ Finish

Spec == RunInit /\ [][Next]_vars

-----------------------------------------------------------------------------
(* One file through the tag reader and the metadata list *)

PipelineInit ==
    /\ cur \in PipelineNames
    /\ raw \in IF is_video_file(cur) THEN VideoProbes ELSE ImageInputs
    /\ meta = EmptyMeta
    /\ lines = << >>
    /\ phase = "input"
    /\ dirOk = TRUE
    /\ listing = << >>
    /\ debug = FALSE
    /\ pc = "off"
    /\ files = << >>
    /\ idx = 0
    /\ outExists = FALSE
    /\ outFile = << >>
    /\ diag = << >>
    /\ tagCalls = [n \in Names |-> 0]
    /\ transCalls = [n \in Names |-> 0]

\* line 193
ExtractVideo ==
    /\ phase = "input"
    /\ is_video_file(cur)
    /\ meta' = extract_video_metadata(raw)
    /\ phase' = "extracted"
    /\ UNCHANGED <<cur, raw, lines, runVars>>

\* line 224
ExtractImage ==
    /\ phase = "input"
    /\ ~is_video_file(cur)
    /\ is_image_file(cur)
    /\ meta' = extract_image_metadata(cur, raw)
    /\ phase' = "extracted"
    /\ UNCHANGED <<cur, raw, lines, runVars>>

\* lines 195-219
RenderVideo ==
    /\ phase = "extracted"
    /\ is_video_file(cur)
    /\ lines' = MetadataLines(meta, VideoFields)
    /\ phase' = "rendered"
    /\ UNCHANGED <<cur, raw, meta, runVars>>

\* lines 226-248
RenderImage ==
    /\ phase = "extracted"
    /\ ~is_video_file(cur)
    /\ lines' = MetadataLines(meta, ImageFields)
    /\ phase' = "rendered"
    /\ UNCHANGED <<cur, raw, meta, runVars>>

PipelineNext == ExtractVideo \/ ExtractImage \/ RenderVideo \/ RenderImage

PipelineSpec == PipelineInit /\ [][PipelineNext]_vars

-----------------------------------------------------------------------------
(* Properties of a whole run, checked under Spec *)

\* the names of the "## name" headings of the report, in order
Headings == 
    LET hs == SelectSeq(outFile, LAMBDA c : c.t = "heading")
    IN  [i \in 1..Len(hs) |-> hs[i].name]

ListedNames == [i \in 1..Len(listing) |-> listing[i].name]

\* the output file is as it was before the run
OutputUntouched ==
    \/ ~outExists /\ outFile = << >>
    \/ outExists /\ outFile = OldReport

\* C1: when a run aborts partway (the transcriber raised), the output file
\* has been neither created nor truncated nor partially filled.
C1_NoFileOnAbort == pc = "aborted" => OutputUntouched

\* C2: at every moment the sections of the report are in strictly ascending
\* case-sensitive order of file name, and a finished report has exactly one
\* section per processed file, whatever order the directory listing had;
\* a plain run on the listing b.jpg, a.mp4, c.png gives a.mp4, b.jpg, c.png.
C2_SectionsSorted ==
    /\ \A i, j \in 1..Len(Headings) : i < j => PathLess(Headings[i], Headings[j])
    /\ pc = "done" =>
          /\ Range(Headings) = Range(files)
          /\ Len(Headings) = Len(files)
    /\ (pc = "done" /\ ~debug /\ ListedNames = <<B_JPG, A_MP4, C_PNG>>)
          => Headings = <<A_MP4, B_JPG, C_PNG>>

C2_Witness ==
    /\ pc = "done"
    /\ ~debug
    /\ ListedNames = <<B_JPG, A_MP4, C_PNG>>
    /\ Headings = <<A_MP4, B_JPG, C_PNG>>

\* C9 as stated: a finished --debug run has a section for every recognised
\* media file of the directory.
C9_DebugFullReport ==
    (pc = "done" /\ debug) => Range(Headings) = Range(MediaFiles(listing))

\* C9 amended: a finished --debug run printed diagnostics for at most one
\* video and one image, the first of each kind in listing order, and its
\* report has one section for each of exactly those files.
C9_DebugReportsSelection ==
    (pc = "done" /\ debug) =>
        /\ Cardinality({i \in 1..Len(diag) : is_video_file(diag[i])}) <= 1
        /\ Cardinality({i \in 1..Len(diag) : is_image_file(diag[i])}) <= 1
        /\ diag = FirstVideo(MediaFiles(listing)) \o FirstImage(MediaFiles(listing))
        /\ Range(Headings) = Range(diag)
        /\ Len(Headings) = Len(diag)

C9_Witness ==
    /\ pc = "done"
    /\ debug
    /\ Len(MediaFiles(listing)) = 3
    /\ Len(Headings) = 2

\* C10: in every run the tag reader and the transcriber are each called at
\* most once per file, and the transcriber only for videos.
C10_AtMostOncePerFile ==
    \A n \in Names :
        /\ tagCalls[n] <= 1
        /\ transCalls[n] <= 1
        /\ transCalls[n] > 0 => is_video_file(n)

-----------------------------------------------------------------------------
(* Properties of one file's metadata, checked under PipelineSpec *)

IsVideo == is_video_file(cur)

Fields == FieldsOf(cur)

NoDeclaredField == \A i \in 1..Len(Fields) : Fields[i].key \notin DOMAIN meta

\* the tags the probe reported, for a probe that ran
RawTags == ParseLines(EmptyMeta, raw.stdout)

BulletsLabelled(label) ==
    SelectSeq(lines, LAMBDA c : c.t = "bullet" /\ c.label = label)

\* C3 as stated: a metadata map with none of the kind's declared fields
\* renders as the single line "- No metadata found", without any bullet.
C3_OnlyNoMetadataLine ==
    (phase = "rendered" /\ NoDeclaredField) => lines = <<NoMetadataFound>>

\* C3 amended: a metadata map with none of the kind's declared fields
\* renders as exactly two lines, "- Description: Not found" followed by
\* "- No metadata found", and no other bullet.
C3_NotFoundThenNoMetadata ==
    (phase = "rendered" /\ NoDeclaredField) =>
        lines = <<Bullet("Description", NotFound), NoMetadataFound>>

C3_Witness ==
    /\ phase = "rendered"
    /\ NoDeclaredField
    /\ DOMAIN meta = {ErrorKey}
    /\ NoMetadataFound \in Range(lines)

LacksDescriptionTags ==
    raw.raises \/ \A i \in 1..Len(DescriptionSources) :
                      DescriptionSources[i] \notin DOMAIN RawTags

\* C4: every rendered metadata list, of a video or an image, has exactly
\* one Description line; for a video whose tags lack Description,
\* UserComment, XPComment and Comment (or whose probe failed) that line is
\* "- Description: Not found".
C4_DescriptionAlwaysRendered ==
    phase = "rendered" =>
        /\ Len(BulletsLabelled("Description")) = 1
        /\ (IsVideo /\ LacksDescriptionTags) =>
              BulletsLabelled("Description") = <<Bullet("Description", NotFound)>>

C4_Witness ==
    /\ phase = "rendered"
    /\ IsVideo
    /\ ~raw.raises
    /\ LacksDescriptionTags
    /\ DOMAIN RawTags # {}
    /\ Bullet("Description", NotFound) \in Range(lines)

\* reading the tags of the file failed: the image extraction raised, or
\* the probe raised or exited with a non-zero status
TagReadFailed ==
    IF IsVideo THEN raw.raises \/ raw.returncode # 0
    ELSE ErrorKey \in DOMAIN meta

\* C5: when reading a file's tags fails, the returned metadata map has the
\* single key `error`.
C5_OnlyErrorOnFailure ==
    (phase # "input" /\ TagReadFailed) => DOMAIN meta = {ErrorKey}

CreationDateTags ==
    << <<"CreateDate">>, <<"CreationDate">>, <<"ModifyDate">>,
       <<"TrackCreateDate">>, <<"MediaCreateDate">>, <<"FileModifyDate">> >>

FirstPresent(m, keys) ==
    LET is == {i \in 1..Len(keys) : keys[i] \in DOMAIN m}
    IN  keys[CHOOSE i \in is : \A j \in is : i <= j]

\* C6: when the probe reports at least one of the six date tags, the video's
\* list has a "- Creation Date:" line carrying the value of the first of
\* them in the declared order.
C6_CreationDatePrecedence ==
    (/\ phase = "rendered"
     /\ IsVideo
     /\ ~raw.raises
     /\ \E i \in 1..Len(CreationDateTags) : CreationDateTags[i] \in DOMAIN RawTags)
    => BulletsLabelled("Creation Date")
         = <<Bullet("Creation Date", RawTags[FirstPresent(RawTags, CreationDateTags)])>>

\* C7: no field other than Description is rendered with an empty value, and
\* a field whose value is empty does not keep "- No metadata found" away.
C7_EmptyValueIsAbsent ==
    phase = "rendered" =>
        /\ \A i \in 1..Len(lines) :
              (lines[i].t = "bullet" /\ lines[i].label # "Description")
                  => lines[i].value # << >>
        /\ (\A i \in 1..Len(Fields) :
                Fields[i].key \in DOMAIN meta =>
                    (Fields[i].key # <<"Description">> /\ meta[Fields[i].key] = << >>))
              => NoMetadataFound \in Range(lines)

GpsHasZeroDenominator ==
    /\ raw.gps.lat # Absent
    /\ raw.gps.lon # Absent
    /\ ZeroDen(raw.gps.lat) \/ ZeroDen(raw.gps.lon)

\* C8: a zero denominator in the latitude or longitude never makes the GPS
\* conversion raise; the file's metadata is what it would be without GPS
\* tags, only the GPS field being omitted.
C8_ZeroDenominatorOmitsGps ==
    (phase # "input" /\ ~IsVideo /\ GpsHasZeroDenominator) =>
        /\ ~exif_gps_to_decimal(<<raw.gps.lat, raw.gps.lon>>).raised
        /\ meta = extract_image_metadata(cur,
                      [raw EXCEPT !.gps = Gps(Absent, Absent, Absent, Absent)])

====
